---- MODULE Spec2Model ----
(***************************************************************************)
(* Model of src/app.py: a Flask webhook that relays WhatsApp text messages *)
(* to the DeepSeek completion API and sends the answer back.               *)
(*                                                                         *)
(* Python / JSON values are tagged records, so that values of different    *)
(* Python types can be stored in one variable and compared.                *)
(***************************************************************************)
EXTENDS Naturals, Sequences, FiniteSets

VARIABLES
    env,          \* the process environment read by os.getenv (lines 20-23)
    config,       \* the four module-level configuration globals
    phase,        \* "start", "serving" or "exited" (the __main__ block)
    check,        \* what check_configuration returned and listed, once run
    pc,           \* per worker: position of the request being handled
    request,      \* per worker: the HTTP request being handled
    data,         \* per worker: what request.get_json() returned
    from_number,  \* per worker: local of webhook()
    user_text,    \* per worker: local of webhook()
    ai_response,  \* per worker: local of webhook()
    calls,        \* per worker: invocations of the two client functions
    posts,        \* per worker: HTTP POSTs issued through requests.post
    response      \* per worker: what the view function returned or raised

vars == <<env, config, phase, check, pc, request, data, from_number,
          user_text, ai_response, calls, posts, response>>

\* Number of requests handled at the same time in SpecConc.
NumReq == 2

-----------------------------------------------------------------------------
(* Python values *)

None == [t |-> "None"]
Str(s) == [t |-> "str", s |-> s]
Num(n) == [t |-> "int", n |-> n]
Bool(b) == [t |-> "bool", b |-> b]
List(q) == [t |-> "list", items |-> q]
Dict(f) == [t |-> "dict", kv |-> f]
EmptyKV == [k \in {} |-> None]
\* A value that is not there yet: a call in flight, a response not yet made.
Pending == [t |-> "pending"]

\* bool(v), as used by "if v:" and "not v"
Truthy(v) ==
    CASE v.t = "None" -> FALSE
      [] v.t = "str"  -> v.s # ""
      [] v.t = "int"  -> v.n # 0
      [] v.t = "bool" -> v.b
      [] v.t = "list" -> v.items # <<>>
      [] v.t = "dict" -> DOMAIN v.kv # {}
      [] OTHER        -> TRUE

\* Only a dict has the attribute .get; on anything else v.get raises
\* AttributeError.
HasGet(v) == v.t = "dict"

\* v.get(k, default) on a dict
Get(v, k, default) == IF k \in DOMAIN v.kv THEN v.kv[k] ELSE default

\* The result of an expression that may raise.
Ok(v) == [ok |-> TRUE, v |-> v]
Raised == [ok |-> FALSE, v |-> None]

\* v[0]: the first item of a list, the first character of a str (a str of
\* length one, whose text does not matter to any caller: a str has no .get
\* and no key), IndexError on an empty list or str, KeyError on a dict (JSON
\* keys are strings), TypeError on None and numbers.
Index0(v) ==
    CASE v.t = "list" /\ v.items # <<>> -> Ok(v.items[1])
      [] v.t = "str" /\ v.s # ""        -> Ok(Str("<char>"))
      [] OTHER                          -> Raised

\* v[k] for a string key: the value on a dict that has the key, KeyError on a
\* dict that lacks it, TypeError on everything else.
Key(v, k) == IF v.t = "dict" /\ k \in DOMAIN v.kv THEN Ok(v.kv[k]) ELSE Raised

-----------------------------------------------------------------------------
(* Configuration, lines 20-23 *)

RequiredNames == <<"WHATSAPP_TOKEN", "WHATSAPP_PHONE_ID", "DEEPSEEK_API_KEY">>
EnvNames == {"WHATSAPP_TOKEN", "WHATSAPP_PHONE_ID", "DEEPSEEK_API_KEY", "VERIFY_TOKEN"}

\* os.getenv(name): None when the variable is unset
Getenv(e, name) == e[name]

\* os.getenv(name, default)
GetenvDefault(e, name, default) == IF e[name] = None THEN default ELSE e[name]

\* The module-level assignments of lines 20-23.
LoadConfig(e) ==
    [WHATSAPP_TOKEN    |-> Getenv(e, "WHATSAPP_TOKEN"),
     WHATSAPP_PHONE_ID |-> Getenv(e, "WHATSAPP_PHONE_ID"),
     DEEPSEEK_API_KEY  |-> Getenv(e, "DEEPSEEK_API_KEY"),
     VERIFY_TOKEN      |-> GetenvDefault(e, "VERIFY_TOKEN", Str("deepseek-bot"))]

\* The values an environment variable can have: unset, set to the empty
\* string (a line "NAME=" in .env), set to a credential.
EnvValues == {None, Str(""), Str("secret")}
Environments == [EnvNames -> EnvValues]

-----------------------------------------------------------------------------
(* check_configuration, lines 150-167 *)

\* A faulty variant of MissingVars: the test of DEEPSEEK_API_KEY is left out.
MissingVarsNoKey(cfg) ==
    SelectSeq(<<"WHATSAPP_TOKEN", "WHATSAPP_PHONE_ID">>, LAMBDA name : ~Truthy(cfg[name]))

\* missing_vars as built by lines 152-159, in the order of the appends
MissingVars(cfg) ==
    SelectSeq(RequiredNames, LAMBDA name : ~Truthy(cfg[name]))

\* the return value, lines 161-167
CheckConfiguration(cfg) == MissingVars(cfg) = <<>>

-----------------------------------------------------------------------------
(* The verification handshake, lines 85-98 *)

Returned(body, status) == [raised |-> FALSE, body |-> body, status |-> status]
\* An exception that leaves the view function; Flask answers an HTTPException
\* with its own status code.
Raises(name, status) == [raised |-> TRUE, body |-> Str(name), status |-> status]

\* A faulty variant of Verify: "or" in place of "and".
VerifyEither(mode, token, challenge) ==
    IF mode = Str("subscribe") \/ token = config.VERIFY_TOKEN
    THEN Returned(challenge, 200)
    ELSE Returned(Str("Verification failed"), 403)

Verify(mode, token, challenge) ==
    IF mode = Str("subscribe") /\ token = config.VERIFY_TOKEN
    THEN Returned(challenge, 200)
    ELSE Returned(Str("Verification failed"), 403)

-----------------------------------------------------------------------------
(* Extraction of the message, lines 104-120 and 128-132 *)

\* What the try block found: kind is "raise" when an exception reached the
\* handler of line 131, "none" when a level of the path was falsy, "other"
\* for a message that is not a text message, "text" for a text message.
Found(kind, from, text) == [kind |-> kind, from_number |-> from, user_text |-> text]
Caught == Found("raise", None, None)
NoMessage == Found("none", None, None)

\* A faulty variant of Message: the test of the message type is left out.
MessageAnyType(message) ==
    LET fromNumber == Get(message, "from", None)
        text       == Get(message, "text", Dict(EmptyKV))
    IN  IF ~HasGet(text) THEN Caught
        ELSE Found("text", fromNumber, Get(text, "body", Str("")))

\* A faulty variant of Message: the text object is taken for its body.
MessageWholeText(message) ==
    LET fromNumber  == Get(message, "from", None)
        messageType == Get(message, "type", None)
    IN  IF messageType = Str("text")
        THEN Found("text", fromNumber, Get(message, "text", Str("")))
        ELSE Found("other", fromNumber, None)

\* lines 114-129, for message = messages[0]
Message(message) ==
    LET fromNumber  == Get(message, "from", None)
        messageType == Get(message, "type", None)
    IN  IF messageType = Str("text")
        THEN LET text == Get(message, "text", Dict(EmptyKV))
             IN  IF ~HasGet(text) THEN Caught
                 ELSE Found("text", fromNumber, Get(text, "body", Str("")))
        ELSE Found("other", fromNumber, None)

\* lines 106-113
Extract(d) ==
    IF ~HasGet(d) THEN Caught ELSE
    LET entry == Get(d, "entry", List(<<>>)) IN
    IF ~Truthy(entry) THEN NoMessage ELSE
    LET e0 == Index0(entry) IN
    IF ~e0.ok \/ ~HasGet(e0.v) THEN Caught ELSE
    LET changes == Get(e0.v, "changes", List(<<>>)) IN
    IF ~Truthy(changes) THEN NoMessage ELSE
    LET c0 == Index0(changes) IN
    IF ~c0.ok \/ ~HasGet(c0.v) THEN Caught ELSE
    LET value == Get(c0.v, "value", Dict(EmptyKV)) IN
    IF ~HasGet(value) THEN Caught ELSE
    LET messages == Get(value, "messages", List(<<>>)) IN
    IF ~Truthy(messages) THEN NoMessage ELSE
    LET m0 == Index0(messages) IN
    IF ~m0.ok \/ ~HasGet(m0.v) THEN Caught ELSE
    Message(m0.v)

-----------------------------------------------------------------------------
(* get_deepseek_reply, lines 55-81 *)

NotConfigured == Str("DeepSeek API key not configured!")
FallbackStatus == Str("Sorry, I'm having trouble processing your request right now.")
FallbackError == Str("Sorry, I encountered an error while processing your message.")

\* line 57, "if not DEEPSEEK_API_KEY"
\* A faulty variant of KeyMissing: "is None" in place of "not".
KeyIsNone == config.DEEPSEEK_API_KEY = None
KeyMissing == ~Truthy(config.DEEPSEEK_API_KEY)

\* The payload of line 65-70 (temperature 0.7 is kept as the tenths 7).
CompletionPayload(userMessage) ==
    [model |-> "deepseek-chat", role |-> "user", content |-> userMessage,
     temperature_tenths |-> 7, max_tokens |-> 1000]

\* What requests.post can do: raise, or return a response with a status code
\* and a body that response.json() parses or fails to parse.
Exception == [kind |-> "exception", status |-> 0, json |-> Raised]
HttpResponse(status, json) == [kind |-> "response", status |-> status, json |-> json]

\* response.json()["choices"][0]["message"]["content"], line 75
Content(json) ==
    IF ~json.ok THEN Raised ELSE
    LET choices == Key(json.v, "choices") IN
    IF ~choices.ok THEN Raised ELSE
    LET first == Index0(choices.v) IN
    IF ~first.ok THEN Raised ELSE
    LET message == Key(first.v, "message") IN
    IF ~message.ok THEN Raised ELSE
    Key(message.v, "content")

\* A faulty variant of DeepseekReply: the else branch returns nothing.
DeepseekReplyPropagates(outcome) ==
    IF outcome.kind = "exception" THEN FallbackError
    ELSE IF outcome.status = 200
         THEN LET c == Content(outcome.json) IN IF c.ok THEN c.v ELSE FallbackError
         ELSE None

\* lines 72-81: the value get_deepseek_reply returns once requests.post has
\* returned or raised
DeepseekReply(outcome) ==
    IF outcome.kind = "exception" THEN FallbackError
    ELSE IF outcome.status = 200
         THEN LET c == Content(outcome.json) IN IF c.ok THEN c.v ELSE FallbackError
         ELSE FallbackStatus

-----------------------------------------------------------------------------
(* send_whatsapp_message, lines 25-53 *)

\* line 27
CredentialsMissing ==
    ~Truthy(config.WHATSAPP_TOKEN) \/ ~Truthy(config.WHATSAPP_PHONE_ID)

\* lines 31-41
SendPayload(to, message) ==
    [phone_id |-> config.WHATSAPP_PHONE_ID, token |-> config.WHATSAPP_TOKEN,
     messaging_product |-> "whatsapp", to |-> to, type |-> "text", body |-> message]

\* A faulty variant of SendResult: the status code is not tested.
SendResultAnyResponse(outcome) == outcome.kind = "response"

\* lines 43-53: the flag send_whatsapp_message returns once requests.post has
\* returned or raised
SendResult(outcome) == outcome.kind = "response" /\ outcome.status = 200

-----------------------------------------------------------------------------
(* Inputs: the requests the platform and other clients can send *)

TextMessage(from, body) ==
    Dict([from |-> Str(from), id |-> Str("wamid.1"), type |-> Str("text"),
          text |-> Dict([body |-> Str(body)])])
ImageMessage(from) ==
    Dict([from |-> Str(from), id |-> Str("wamid.2"), type |-> Str("image"),
          image |-> Dict([id |-> Str("media.1")])])

WithEntry(entry) == Dict([object |-> Str("whatsapp_business_account"), entry |-> entry])
WithChanges(changes) == WithEntry(List(<<Dict([id |-> Str("0"), changes |-> changes])>>))
WithValue(value) == WithChanges(List(<<Dict([field |-> Str("messages"), value |-> value])>>))
WithMessages(messages) ==
    WithValue(Dict([messaging_product |-> Str("whatsapp"), messages |-> messages]))
Delivery(message) == WithMessages(List(<<message>>))

Hello == Delivery(TextMessage("1555000111", "Hello"))
Hi == Delivery(TextMessage("1555000222", "Hi"))
Image == Delivery(ImageMessage("1555000111"))

\* Deliveries that carry a text message the handler can read.
TextPayloads ==
    {Hello, Hi,
     Delivery(TextMessage("1555000111", "")),
     \* type "text" with no text object, and with an empty one
     Delivery(Dict([from |-> Str("1555000111"), type |-> Str("text")])),
     Delivery(Dict([from |-> Str("1555000111"), type |-> Str("text"), text |-> Dict(EmptyKV)])),
     \* no sender
     Delivery(Dict([type |-> Str("text"), text |-> Dict([body |-> Str("Hello")])])),
     \* a text message followed by an image
     WithMessages(List(<<TextMessage("1555000111", "Hello"), ImageMessage("1555000222")>>))}

\* Deliveries with a first message of another type, and payloads that lack a
\* level of the path or hold an empty one.
OtherPayloads ==
    {Image,
     Delivery(Dict([from |-> Str("1555000111")])),
     WithMessages(List(<<ImageMessage("1555000222"), TextMessage("1555000111", "Hello")>>)),
     WithMessages(List(<<>>)),
     WithValue(Dict([statuses |-> List(<<Dict([status |-> Str("delivered")])>>)])),
     WithValue(Dict(EmptyKV)),
     WithChanges(List(<<Dict([field |-> Str("messages")])>>)),
     WithChanges(List(<<>>)),
     WithEntry(List(<<Dict([id |-> Str("0")])>>)),
     WithEntry(List(<<>>)),
     WithEntry(None),
     WithMessages(None),
     Dict([object |-> Str("whatsapp_business_account")]),
     Dict(EmptyKV)}

\* Payloads of a wrong shape: a level of the path holds a value of another
\* JSON type than the platform sends.
WrongShapes ==
    {None, List(<<>>), Str("Hello"), Num(1),
     WithEntry(Dict([changes |-> List(<<>>)])),
     WithEntry(Str("abc")),
     WithEntry(Num(1)),
     WithEntry(List(<<Str("abc")>>)),
     WithChanges(Dict([value |-> Dict(EmptyKV)])),
     WithChanges(List(<<None>>)),
     WithValue(None),
     WithValue(List(<<>>)),
     WithMessages(Dict([from |-> Str("1555000111")])),
     WithMessages(Str("Hello")),
     Delivery(Str("Hello")),
     Delivery(None),
     Delivery(Dict([from |-> Str("1555000111"), type |-> Str("text"), text |-> Str("Hello")])),
     Delivery(Dict([from |-> Str("1555000111"), type |-> Str("text"), text |-> None]))}

Payloads == TextPayloads \cup OtherPayloads \cup WrongShapes

\* The body of a POST: JSON text that parses to a payload, a body sent as
\* application/json that is not JSON (an empty body included), a body that is
\* absent or sent with another content type.
JsonBody(v) == [kind |-> "json", v |-> v]
MalformedBody == [kind |-> "malformed", v |-> None]
NotJsonBody == [kind |-> "notjson", v |-> None]

NoArgs == [mode |-> None, token |-> None, challenge |-> None]
Post(body) == [method |-> "POST", args |-> NoArgs, body |-> body]
Get_(mode, token, challenge) ==
    [method |-> "GET", args |-> [mode |-> mode, token |-> token, challenge |-> challenge],
     body |-> NotJsonBody]

Modes == {None, Str("subscribe"), Str("unsubscribe"), Str("")}
Tokens == {None, Str("deepseek-bot"), Str("secret"), Str("wrong"), Str("")}
Challenges == {None, Str("1158201444")}

GetRequests == {Get_(m, t, c) : m \in Modes, t \in Tokens, c \in Challenges}
PostRequests == {Post(JsonBody(v)) : v \in Payloads} \cup {Post(MalformedBody), Post(NotJsonBody)}
Requests == GetRequests \cup PostRequests

\* The requests of the concurrent specification.
ConcRequests == {Post(JsonBody(Hello)), Post(JsonBody(Hi)), Post(JsonBody(Image))}

\* A completion response body with the given first choice content.
Completion(content) ==
    Ok(Dict([id |-> Str("cmpl-1"),
             choices |-> List(<<Dict([index |-> Num(0),
                                      message |-> Dict([role |-> Str("assistant"),
                                                        content |-> content])])>>)]))

CompletionOutcomes ==
    {Exception,
     HttpResponse(500, Ok(Dict([error |-> Str("internal")]))),
     HttpResponse(401, Raised),
     HttpResponse(200, Completion(Str("Hi there!"))),
     HttpResponse(200, Completion(Str(""))),
     HttpResponse(200, Completion(None)),
     HttpResponse(200, Ok(Dict([choices |-> List(<<>>)]))),
     HttpResponse(200, Ok(Dict([error |-> Str("overloaded")]))),
     HttpResponse(200, Ok(List(<<>>))),
     HttpResponse(200, Raised)}

ConcCompletionOutcomes ==
    {Exception,
     HttpResponse(500, Raised),
     HttpResponse(200, Completion(Str("Hi there!"))),
     HttpResponse(200, Completion(Str("Hello to you")))}

SendOutcomes ==
    {Exception,
     HttpResponse(200, Ok(Dict([messaging_product |-> Str("whatsapp")]))),
     HttpResponse(400, Ok(Dict([error |-> Str("bad request")]))),
     HttpResponse(500, Raised)}

ConcSendOutcomes == {Exception, HttpResponse(200, Raised)}

-----------------------------------------------------------------------------
(* The state machine *)

Workers == DOMAIN pc

NotRun == [ran |-> FALSE, ok |-> FALSE, missing |-> <<>>]

\* The state once the module has been loaded by the interpreter (lines 1-23),
\* with n workers of the HTTP server and no request yet.
Loaded(e, n, ph) ==
    /\ env = e
    /\ config = LoadConfig(e)
    /\ phase = ph
    /\ check = NotRun
    /\ pc = [r \in 1..n |-> "idle"]
    /\ request = [r \in 1..n |-> Pending]
    /\ data = [r \in 1..n |-> Pending]
    /\ from_number = [r \in 1..n |-> Pending]
    /\ user_text = [r \in 1..n |-> Pending]
    /\ ai_response = [r \in 1..n |-> Pending]
    /\ calls = [r \in 1..n |-> <<>>]
    /\ posts = [r \in 1..n |-> <<>>]
    /\ response = [r \in 1..n |-> Pending]

Init == \E e \in Environments : Loaded(e, 1, "start")

\* The __main__ block, lines 169-182: the server is started only when
\* check_configuration returns True; otherwise the process exits.
Main ==
    /\ phase = "start"
    /\ check' = [ran |-> TRUE, ok |-> CheckConfiguration(config),
                 missing |-> MissingVars(config)]
    /\ phase' = IF CheckConfiguration(config) THEN "serving" ELSE "exited"
    /\ UNCHANGED <<env, config, pc, request, data, from_number, user_text,
                   ai_response, calls, posts, response>>

\* The module is imported and app (line 17) is served by a WSGI server or by
\* "flask run": the __main__ block, and with it the configuration check, does
\* not run.
ServeImported ==
    /\ phase = "start"
    /\ phase' = "serving"
    /\ UNCHANGED <<env, config, check, pc, request, data, from_number, user_text,
                   ai_response, calls, posts, response>>

\* A worker that is free takes a request of the set reqs; webhook() starts with
\* fresh locals.
Receive(r, reqs) ==
    /\ phase = "serving"
    /\ pc[r] \in {"idle", "done"}
    /\ \E q \in reqs : request' = [request EXCEPT ![r] = q]
    /\ pc' = [pc EXCEPT ![r] = "webhook"]
    /\ data' = [data EXCEPT ![r] = Pending]
    /\ from_number' = [from_number EXCEPT ![r] = Pending]
    /\ user_text' = [user_text EXCEPT ![r] = Pending]
    /\ ai_response' = [ai_response EXCEPT ![r] = Pending]
    /\ calls' = [calls EXCEPT ![r] = <<>>]
    /\ posts' = [posts EXCEPT ![r] = <<>>]
    /\ response' = [response EXCEPT ![r] = Pending]
    /\ UNCHANGED <<env, config, phase, check>>

\* lines 85-98
WebhookGet(r) ==
    /\ pc[r] = "webhook"
    /\ request[r].method = "GET"
    /\ response' = [response EXCEPT ![r] =
            Verify(request[r].args.mode, request[r].args.token, request[r].args.challenge)]
    /\ pc' = [pc EXCEPT ![r] = "done"]
    /\ UNCHANGED <<env, config, phase, check, request, data, from_number, user_text,
                   ai_response, calls, posts>>

\* request.get_json() of line 101, with the default force=False and
\* silent=False: the parsed value of a JSON body; BadRequest (400) for a body
\* sent as JSON that does not parse; for a body that is not sent as JSON, None
\* (Flask before 2.1) or UnsupportedMediaType (415, Flask 2.1 and later).
GetJson(body) ==
    CASE body.kind = "json"      -> {[raised |-> FALSE, v |-> body.v, exc |-> Pending]}
      [] body.kind = "malformed" -> {[raised |-> TRUE, v |-> None, exc |-> Raises("BadRequest", 400)]}
      [] OTHER                   -> {[raised |-> FALSE, v |-> None, exc |-> Pending],
                                     [raised |-> TRUE, v |-> None,
                                      exc |-> Raises("UnsupportedMediaType", 415)]}

\* lines 100-120 and 128-132: get_json, which is called outside the try block,
\* then the extraction inside it.
WebhookPost(r) ==
    /\ pc[r] = "webhook"
    /\ request[r].method = "POST"
    /\ \E j \in GetJson(request[r].body) :
          IF j.raised
          THEN /\ response' = [response EXCEPT ![r] = j.exc]
               /\ pc' = [pc EXCEPT ![r] = "done"]
               /\ UNCHANGED <<data, from_number, user_text>>
          ELSE LET found == Extract(j.v) IN
               /\ data' = [data EXCEPT ![r] = j.v]
               /\ IF found.kind = "text"
                  THEN /\ from_number' = [from_number EXCEPT ![r] = found.from_number]
                       /\ user_text' = [user_text EXCEPT ![r] = found.user_text]
                       /\ pc' = [pc EXCEPT ![r] = "reply"]
                  ELSE /\ pc' = [pc EXCEPT ![r] = "return"]
                       /\ UNCHANGED <<from_number, user_text>>
               /\ UNCHANGED response
    /\ UNCHANGED <<env, config, phase, check, request, ai_response, calls, posts>>

Call(fn, args, ret) == [fn |-> fn, args |-> args, ret |-> ret]
HttpPost(endpoint, payload, outcome) ==
    [endpoint |-> endpoint, payload |-> payload, outcome |-> outcome]

\* line 123 and lines 55-73: get_deepseek_reply(user_text) is entered; without
\* a key it returns at once, with one it blocks in requests.post.
CallDeepseek(r) ==
    /\ pc[r] = "reply"
    /\ IF KeyMissing
       THEN /\ calls' = [calls EXCEPT ![r] =
                    Append(@, Call("get_deepseek_reply", <<user_text[r]>>, NotConfigured))]
            /\ ai_response' = [ai_response EXCEPT ![r] = NotConfigured]
            /\ pc' = [pc EXCEPT ![r] = "send"]
            /\ UNCHANGED posts
       ELSE /\ calls' = [calls EXCEPT ![r] =
                    Append(@, Call("get_deepseek_reply", <<user_text[r]>>, Pending))]
            /\ posts' = [posts EXCEPT ![r] =
                    Append(@, HttpPost("deepseek", CompletionPayload(user_text[r]), Pending))]
            /\ pc' = [pc EXCEPT ![r] = "await_deepseek"]
            /\ UNCHANGED ai_response
    /\ UNCHANGED <<env, config, phase, check, request, data, from_number, user_text,
                   response>>

\* lines 73-81 and 123: requests.post returns or raises with one of outcomes,
\* get_deepseek_reply returns and its value is bound to ai_response.
DeepseekReturns(r, outcomes) ==
    /\ pc[r] = "await_deepseek"
    /\ \E o \in outcomes :
          /\ posts' = [posts EXCEPT ![r][Len(posts[r])].outcome = o]
          /\ calls' = [calls EXCEPT ![r][Len(calls[r])].ret = DeepseekReply(o)]
          /\ ai_response' = [ai_response EXCEPT ![r] = DeepseekReply(o)]
    /\ pc' = [pc EXCEPT ![r] = "send"]
    /\ UNCHANGED <<env, config, phase, check, request, data, from_number, user_text,
                   response>>

\* A faulty variant of SendArguments: the locals are kept in one slot that
\* all requests share.
SendArgumentsShared(r) == <<from_number[1], ai_response[1]>>

\* The arguments of the call of line 127.
SendArguments(r) == <<from_number[r], ai_response[r]>>

\* line 127 and lines 25-44: send_whatsapp_message(from_number, ai_response)
\* is entered; without credentials it returns False at once, with them it
\* blocks in requests.post.
CallSend(r) ==
    /\ pc[r] = "send"
    /\ IF CredentialsMissing
       THEN /\ calls' = [calls EXCEPT ![r] =
                    Append(@, Call("send_whatsapp_message", SendArguments(r), Bool(FALSE)))]
            /\ pc' = [pc EXCEPT ![r] = "return"]
            /\ UNCHANGED posts
       ELSE /\ calls' = [calls EXCEPT ![r] =
                    Append(@, Call("send_whatsapp_message", SendArguments(r), Pending))]
            /\ posts' = [posts EXCEPT ![r] =
                    Append(@, HttpPost("whatsapp",
                                       SendPayload(SendArguments(r)[1], SendArguments(r)[2]),
                                       Pending))]
            /\ pc' = [pc EXCEPT ![r] = "await_send"]
    /\ UNCHANGED <<env, config, phase, check, request, data, from_number, user_text,
                   ai_response, response>>

\* lines 44-53: requests.post returns or raises with one of outcomes and
\* send_whatsapp_message returns its flag, which webhook() drops.
SendReturns(r, outcomes) ==
    /\ pc[r] = "await_send"
    /\ \E o \in outcomes :
          /\ posts' = [posts EXCEPT ![r][Len(posts[r])].outcome = o]
          /\ calls' = [calls EXCEPT ![r][Len(calls[r])].ret = Bool(SendResult(o))]
    /\ pc' = [pc EXCEPT ![r] = "return"]
    /\ UNCHANGED <<env, config, phase, check, request, data, from_number, user_text,
                   ai_response, response>>

\* line 134
ReturnOK(r) ==
    /\ pc[r] = "return"
    /\ response' = [response EXCEPT ![r] = Returned(Str("OK"), 200)]
    /\ pc' = [pc EXCEPT ![r] = "done"]
    /\ UNCHANGED <<env, config, phase, check, request, data, from_number, user_text,
                   ai_response, calls, posts>>

\* One worker: requests are handled one after the other.
Next ==
    \/ Main
    \/ ServeImported
    \/ \E r \in Workers : Receive(r, Requests)
    \/ \E r \in Workers : WebhookGet(r)
    \/ \E r \in Workers : WebhookPost(r)
    \/ \E r \in Workers : CallDeepseek(r)
    \/ \E r \in Workers : DeepseekReturns(r, CompletionOutcomes)
    \/ \E r \in Workers : CallSend(r)
    \/ \E r \in Workers : SendReturns(r, SendOutcomes)
    \/ \E r \in Workers : ReturnOK(r)

Spec == Init /\ [][Next]_vars

\* NumReq workers of a threaded or multi-process server handle requests at
\* the same time, their steps interleaved in any order.
ConcEnvironments ==
    {[n \in EnvNames |-> Str("secret")],
     [n \in EnvNames |-> IF n = "DEEPSEEK_API_KEY" THEN None ELSE Str("secret")]}

InitConc == \E e \in ConcEnvironments : Loaded(e, NumReq, "serving")

NextConc ==
    \/ \E r \in Workers : Receive(r, ConcRequests)
    \/ \E r \in Workers : WebhookPost(r)
    \/ \E r \in Workers : CallDeepseek(r)
    \/ \E r \in Workers : DeepseekReturns(r, ConcCompletionOutcomes)
    \/ \E r \in Workers : CallSend(r)
    \/ \E r \in Workers : SendReturns(r, ConcSendOutcomes)
    \/ \E r \in Workers : ReturnOK(r)

SpecConc == InitConc /\ [][NextConc]_vars

-----------------------------------------------------------------------------
(* Vocabulary of the properties, read off the request and the logs alone *)

IsDictWith(v, k) == v.t = "dict" /\ k \in DOMAIN v.kv
IsNonEmptyList(v) == v.t = "list" /\ v.items # <<>>

Entry0(d) == d.kv["entry"].items[1]
Change0(d) == Entry0(d).kv["changes"].items[1]
ValueOf(d) == Change0(d).kv["value"]
FirstMessage(d) == ValueOf(d).kv["messages"].items[1]

\* The payload has a message at entry[0].changes[0].value.messages[0].
HasFirstMessage(d) ==
    /\ IsDictWith(d, "entry") /\ IsNonEmptyList(d.kv["entry"])
    /\ IsDictWith(Entry0(d), "changes") /\ IsNonEmptyList(Entry0(d).kv["changes"])
    /\ IsDictWith(Change0(d), "value")
    /\ IsDictWith(ValueOf(d), "messages") /\ IsNonEmptyList(ValueOf(d).kv["messages"])
    /\ FirstMessage(d).t = "dict"

\* ... and that message has type "text".
HasTextMessage(d) ==
    /\ HasFirstMessage(d)
    /\ IsDictWith(FirstMessage(d), "type")
    /\ FirstMessage(d).kv["type"] = Str("text")

\* ... and its text field is absent or an object.
HasReadableText(d) ==
    /\ HasTextMessage(d)
    /\ IsDictWith(FirstMessage(d), "text") => FirstMessage(d).kv["text"].t = "dict"

\* The message's "from" and its text.body (None and "" when absent).
SenderOf(d) ==
    IF IsDictWith(FirstMessage(d), "from") THEN FirstMessage(d).kv["from"] ELSE None
BodyTextOf(d) ==
    IF IsDictWith(FirstMessage(d), "text") /\ IsDictWith(FirstMessage(d).kv["text"], "body")
    THEN FirstMessage(d).kv["text"].kv["body"]
    ELSE Str("")

Answered(r) == pc[r] = "done"
IsPOST(r) == pc[r] # "idle" /\ request[r].method = "POST"
IsGET(r) == pc[r] # "idle" /\ request[r].method = "GET"
OK200 == Returned(Str("OK"), 200)

Indexes(q, P(_)) == {i \in 1..Len(q) : P(q[i])}
IsCompletionCall(c) == c.fn = "get_deepseek_reply"
IsSendCall(c) == c.fn = "send_whatsapp_message"
IsCompletionPost(p) == p.endpoint = "deepseek"
IsSendPost(p) == p.endpoint = "whatsapp"

\* A configuration value is absent when the variable is unset or empty.
Absent(v) == v = None \/ v = Str("")

\* The completion call failed: requests.post raised or answered non-200.
Failed(outcome) ==
    outcome # Pending /\ (outcome.kind = "exception" \/ outcome.status # 200)

\* The two client functions were called in this order, the first with the
\* body text and returned before the second was called with the sender and
\* the first one's result.
CompletionThenSend(r) ==
    /\ Len(calls[r]) = 2
    /\ IsCompletionCall(calls[r][1])
    /\ calls[r][1].args = <<BodyTextOf(data[r])>>
    /\ calls[r][1].ret # Pending
    /\ IsSendCall(calls[r][2])
    /\ calls[r][2].args = <<SenderOf(data[r]), calls[r][1].ret>>

-----------------------------------------------------------------------------
(* The claims *)

\* C1: every POST to /webhook is answered with ("OK", 200), whatever the
\* body and whatever the completion and send calls do.
C1_PostAlwaysOK ==
    \A r \in Workers : Answered(r) /\ IsPOST(r) => response[r] = OK200

\* C2 as stated: for every payload whose first message has type "text", the
\* Completion Client is called with the body text, then the Outbound Sender
\* with the sender and the returned string, before the response is returned.
C2_EveryTextTypeIsRelayed ==
    \A r \in Workers :
        Answered(r) /\ IsPOST(r) /\ HasTextMessage(data[r]) => CompletionThenSend(r)

\* C2, amended: for a payload whose first message has type "text" and a text
\* field that is absent or an object, the Completion Client is called with
\* exactly the body text, then, after it has returned, the Outbound Sender
\* with the message's "from" and exactly the returned value; the response is
\* returned only when both calls have returned; a send call is never the
\* first call.
C2_CompletionThenSendThenRespond ==
    \A r \in Workers :
        /\ Answered(r) /\ IsPOST(r) /\ HasReadableText(data[r])
              => CompletionThenSend(r) /\ response[r] = OK200
        /\ Answered(r) => \A i \in 1..Len(calls[r]) : calls[r][i].ret # Pending
        /\ \A i \in Indexes(calls[r], IsSendCall) :
              /\ i = 2
              /\ CompletionThenSend(r)
        /\ \A i \in Indexes(calls[r], IsCompletionCall) :
              i = 1 /\ calls[r][1].args = <<BodyTextOf(data[r])>>

C2_Witness ==
    \E r \in Workers :
        /\ Answered(r) /\ IsPOST(r) /\ HasReadableText(data[r])
        /\ BodyTextOf(data[r]) = Str("Hello")
        /\ calls[r][1].ret = Str("Hi there!")
        /\ calls[r][2].ret = Bool(TRUE)

\* C3: for a text message from a sender, the send endpoint is called with
\* that sender as recipient and a non-empty body string, whatever the outcome
\* of the completion call. (Stated here for the cases in which the message
\* is readable and the WhatsApp credentials are configured.)
C3_SendsNonEmptyBody ==
    \A r \in Workers :
        /\ Answered(r) /\ IsPOST(r) /\ HasReadableText(data[r])
        /\ IsDictWith(FirstMessage(data[r]), "from")
        /\ ~CredentialsMissing
        => \E i \in Indexes(posts[r], IsSendPost) :
              /\ posts[r][i].payload.to = SenderOf(data[r])
              /\ posts[r][i].payload.body.t = "str"
              /\ posts[r][i].payload.body.s # ""

\* C4: a GET returns (hub.challenge, 200) if and only if hub.mode is
\* "subscribe" and hub.verify_token equals the configured VERIFY_TOKEN, and
\* ("Verification failed", 403) for every other mode and token.
C4_VerifyIff ==
    \A r \in Workers :
        Answered(r) /\ IsGET(r) =>
            LET a == request[r].args
                match == a.mode = Str("subscribe") /\ a.token = config.VERIFY_TOKEN
            IN  /\ match => response[r] = Returned(a.challenge, 200)
                /\ ~match => response[r] = Returned(Str("Verification failed"), 403)
                /\ response[r].status = 200 <=> match

C4_Witness ==
    \E r \in Workers :
        /\ Answered(r) /\ IsGET(r)
        /\ request[r].args.mode = Str("subscribe")
        /\ request[r].args.token = Str("secret") /\ env["VERIFY_TOKEN"] = Str("secret")
        /\ response[r] = Returned(Str("1158201444"), 200)

\* C5: an HTTP POST to the completion or the send endpoint is made only for
\* a payload whose first message exists and has type "text"; for every other
\* payload no POST is made and the response is ("OK", 200).
C5_OutboundOnlyForText ==
    \A r \in Workers :
        /\ posts[r] # <<>> => HasTextMessage(data[r])
        /\ Answered(r) /\ IsPOST(r) /\ data[r] # Pending /\ ~HasTextMessage(data[r])
              => posts[r] = <<>> /\ calls[r] = <<>> /\ response[r] = OK200

C5_Witness ==
    \E r \in Workers :
        /\ Answered(r) /\ IsPOST(r) /\ data[r] = Image
        /\ ~CredentialsMissing /\ ~KeyMissing
        /\ posts[r] = <<>> /\ response[r] = OK200

\* C6: when the completion endpoint answers non-200 or the call raises, the
\* Completion Client returns one of the two fallback strings, and the
\* Outbound Sender is invoked with that string as the body before the
\* response is returned.
C6_FallbackIsSent ==
    \A r \in Workers :
        \A i \in Indexes(posts[r], IsCompletionPost) :
            Failed(posts[r][i].outcome) =>
                /\ i = 1 /\ IsCompletionCall(calls[r][1])
                /\ calls[r][1].ret \in {FallbackStatus, FallbackError}
                /\ Answered(r) =>
                      /\ Len(calls[r]) = 2 /\ IsSendCall(calls[r][2])
                      /\ calls[r][2].args[2] = calls[r][1].ret
                      /\ calls[r][2].args[2] \in {FallbackStatus, FallbackError}

C6_Witness ==
    \E r \in Workers :
        /\ Answered(r) /\ Len(posts[r]) = 2
        /\ posts[r][1].outcome.kind = "response" /\ posts[r][1].outcome.status = 500
        /\ posts[r][2].payload.body = FallbackStatus

\* C7: with the completion API key absent (unset or empty), the Completion
\* Client makes no POST and returns the "not configured" string; with the
\* key present, every invocation makes exactly one POST to the completion
\* endpoint.
C7_OnePostIffKey ==
    \A r \in Workers :
        LET invoked == Indexes(calls[r], IsCompletionCall)
            posted  == Indexes(posts[r], IsCompletionPost)
        IN  /\ Absent(config.DEEPSEEK_API_KEY) =>
                  /\ posted = {}
                  /\ \A i \in invoked : calls[r][i].ret = NotConfigured
            /\ ~Absent(config.DEEPSEEK_API_KEY) =>
                  /\ Cardinality(posted) = Cardinality(invoked)
                  /\ \A i \in posted : posts[r][i].payload.content = calls[r][1].args[1]

C7_Witness ==
    \E r \in Workers :
        /\ config.DEEPSEEK_API_KEY = Str("")
        /\ Answered(r) /\ Len(calls[r]) = 2
        /\ calls[r][1].ret = NotConfigured
        /\ Indexes(posts[r], IsCompletionPost) = {}

\* C8: an invocation of the Outbound Sender makes at most one POST to the
\* send endpoint; it returns True if and only if that POST was made and
\* answered with status 200; with the token or the phone ID absent (unset
\* or empty) it makes no POST and returns False.
C8_SendFlag ==
    \A r \in Workers :
        LET invoked == Indexes(calls[r], IsSendCall)
            posted  == Indexes(posts[r], IsSendPost)
        IN  /\ Cardinality(posted) <= Cardinality(invoked)
            /\ Cardinality(invoked) <= 1
            /\ \A i \in invoked :
                  calls[r][i].ret # Pending =>
                      /\ calls[r][i].ret \in {Bool(TRUE), Bool(FALSE)}
                      /\ calls[r][i].ret = Bool(TRUE) <=>
                            \E k \in posted :
                                /\ posts[r][k].outcome.kind = "response"
                                /\ posts[r][k].outcome.status = 200
            /\ Absent(config.WHATSAPP_TOKEN) \/ Absent(config.WHATSAPP_PHONE_ID) =>
                  /\ posted = {}
                  /\ \A i \in invoked : calls[r][i].ret = Bool(FALSE)

C8_Witness ==
    \E r \in Workers :
        /\ Answered(r) /\ Len(posts[r]) = 2
        /\ posts[r][2].outcome.kind = "response" /\ posts[r][2].outcome.status = 400
        /\ calls[r][2].ret = Bool(FALSE)

\* C9: the configuration check fails exactly when one of WHATSAPP_TOKEN,
\* WHATSAPP_PHONE_ID, DEEPSEEK_API_KEY is absent (unset or empty) in the
\* environment, and lists exactly the absent names, each once; an unset
\* VERIFY_TOKEN takes the default "deepseek-bot" and never makes it fail.
C9_ListsExactlyTheMissing ==
    LET required == {"WHATSAPP_TOKEN", "WHATSAPP_PHONE_ID", "DEEPSEEK_API_KEY"}
        absent   == {n \in required : Absent(env[n])}
        listed   == {check.missing[i] : i \in 1..Len(check.missing)}
    IN  /\ check.ran =>
              /\ check.ok <=> absent = {}
              /\ listed = absent
              /\ Len(check.missing) = Cardinality(absent)
        /\ phase = "exited" <=> check.ran /\ absent # {}
        /\ env["VERIFY_TOKEN"] = None => config.VERIFY_TOKEN = Str("deepseek-bot")

C9_Witness ==
    /\ check.ran /\ ~check.ok
    /\ check.missing = <<"WHATSAPP_PHONE_ID", "DEEPSEEK_API_KEY">>
    /\ env["VERIFY_TOKEN"] = None
    /\ env["WHATSAPP_TOKEN"] = Str("secret")

\* C10: with several requests handled at the same time, every POST a
\* request makes to the send endpoint goes to that request's own sender and
\* carries the value its own completion call returned for its own text, every
\* completion POST carries its own text, its response is ("OK", 200), and the
\* configuration never changes.
OwnReply(r) ==
    /\ \A i \in Indexes(posts[r], IsCompletionPost) :
          posts[r][i].payload.content = BodyTextOf(data[r])
    /\ \A i \in Indexes(posts[r], IsSendPost) :
          /\ posts[r][i].payload.to = SenderOf(data[r])
          /\ IsCompletionCall(calls[r][1])
          /\ calls[r][1].args = <<BodyTextOf(data[r])>>
          /\ posts[r][i].payload.body = calls[r][1].ret
          /\ posts[r][i].payload.body =
                IF Absent(config.DEEPSEEK_API_KEY) THEN NotConfigured
                ELSE DeepseekReply(posts[r][1].outcome)
    /\ Answered(r) => response[r] = OK200

C10_SelfContained ==
    /\ [](\A r \in Workers : OwnReply(r))
    /\ [][config' = config]_vars

C10_Witness ==
    \E r, q \in Workers :
        /\ r # q /\ Answered(r) /\ pc[q] = "return"
        /\ data[r] = Hello /\ data[q] = Hi
        /\ Len(posts[r]) = 2 /\ Len(posts[q]) = 2
        /\ posts[r][2].payload.body = Str("Hi there!")
        /\ posts[q][2].payload.body = Str("Hello to you")

====
